---- MODULE Spec2Model ----
(***************************************************************************)
(* Model of grade_calculator (src/main.py): weight acquisition, the grade  *)
(* engine (calculate_weighted_percentage, percentage_to_letter), the two   *)
(* interactive collection loops and CSV processing, as one sequential      *)
(* state machine whose steps are the program's blocking reads (one         *)
(* input() call, the opening of the CSV file, one CSV data row).           *)
(*                                                                         *)
(* Python floats are modelled as exact rationals plus the IEEE specials    *)
(* inf, -inf and nan, which float() parses from the text "inf", "-inf" and *)
(* "nan".  Rounding of finite values is not modelled.                      *)
(*                                                                         *)
(* out holds the names of the result lines printed so far and last the     *)
(* most recent result line; errs holds the error messages (those of main,  *)
(* csv_mode and the count abort, and the traceback of an uncaught          *)
(* exception).  Prompts, the weights table and the re-prompt hints are not *)
(* recorded; reprompted tells that an entry was rejected since the current *)
(* student (or the weight dialogue) began.                                 *)
(***************************************************************************)
EXTENDS Integers, Sequences, FiniteSets, TLC

VARIABLES pc, args_csv, mode, ans, weights, rawWeights, k, n, count, i,
          name, scores, pct, letter, out, last, errs, exit_status,
          fieldnames, rows, badrow, asked, entered, reprompted

vars == <<pc, args_csv, mode, ans, weights, rawWeights, k, n, count, i,
          name, scores, pct, letter, out, last, errs, exit_status,
          fieldnames, rows, badrow, asked, entered, reprompted>>

(***************************************************************************)
(* Bounds of the model.                                                    *)
(***************************************************************************)
MaxStudents == 2
MaxRows == 2
MaxHalfPct == 230

(***************************************************************************)
(* Python float: a reduced rational n/d (k = "fin"), or inf, -inf, nan.    *)
(***************************************************************************)
Abs(x) == IF x < 0 THEN -x ELSE x

RECURSIVE GCD(_, _)
GCD(a, b) == IF b = 0 THEN a ELSE GCD(b, a % b)

Fin(a, b) ==
    LET s == IF b < 0 THEN -1 ELSE 1
        g == GCD(Abs(a), Abs(b))
    IN  [k |-> "fin", n |-> (s * a) \div g, d |-> (s * b) \div g]

Num(a) == Fin(a, 1)
PInf == [k |-> "inf", n |-> 1, d |-> 0]
NInf == [k |-> "ninf", n |-> -1, d |-> 0]
NaN == [k |-> "nan", n |-> 0, d |-> 0]

FSign(x) == IF x.n > 0 THEN 1 ELSE IF x.n < 0 THEN -1 ELSE 0

FNeg(x) ==
    CASE x.k = "fin" -> Fin(-x.n, x.d)
      [] x.k = "inf" -> NInf
      [] x.k = "ninf" -> PInf
      [] OTHER -> NaN

FAdd(x, y) ==
    IF x.k = "nan" \/ y.k = "nan" THEN NaN
    ELSE IF x.k = "fin" /\ y.k = "fin"
         THEN LET l == (x.d * y.d) \div GCD(x.d, y.d)
              IN  Fin(x.n * (l \div x.d) + y.n * (l \div y.d), l)
    ELSE IF x.k = "fin" THEN y
    ELSE IF y.k = "fin" THEN x
    ELSE IF x.k = y.k THEN x ELSE NaN

FSub(x, y) == FAdd(x, FNeg(y))

FMul(x, y) ==
    IF x.k = "nan" \/ y.k = "nan" THEN NaN
    ELSE IF x.k = "fin" /\ y.k = "fin" THEN Fin(x.n * y.n, x.d * y.d)
    ELSE IF FSign(x) * FSign(y) = 0 THEN NaN
    ELSE IF FSign(x) * FSign(y) > 0 THEN PInf ELSE NInf

\* x / y for y # 0 (the program divides only by 100.0 and by a total it
\* has just compared with 0).
FDiv(x, y) ==
    IF x.k = "nan" \/ y.k = "nan" THEN NaN
    ELSE IF x.k = "fin" /\ y.k = "fin" THEN Fin(x.n * y.d, x.d * y.n)
    ELSE IF x.k # "fin" /\ y.k # "fin" THEN NaN
    ELSE IF x.k = "fin" THEN Num(0)
    ELSE IF FSign(x) * FSign(y) > 0 THEN PInf ELSE NInf

FAbs(x) == IF x.k = "ninf" THEN PInf ELSE IF x.k = "fin" THEN Fin(Abs(x.n), x.d) ELSE x

\* Comparisons: every comparison with nan is false.
FLe(x, y) ==
    /\ x.k # "nan" /\ y.k # "nan"
    /\ \/ x.k = "ninf"
       \/ y.k = "inf"
       \/ x.k = "fin" /\ y.k = "fin" /\ x.n * y.d <= y.n * x.d

FEq(x, y) == x.k # "nan" /\ y.k # "nan" /\ x = y
FLt(x, y) == FLe(x, y) /\ x # y
FGe(x, y) == FLe(y, x)
FGt(x, y) == FLt(y, x)

IsNum(x) == x.k = "fin"


(***************************************************************************)
(* Program constants.                                                      *)
(***************************************************************************)
Components == <<"assignment", "midterm", "final">>

DEFAULT_WEIGHTS ==
    ("assignment" :> Num(40)) @@ ("midterm" :> Num(30)) @@ ("final" :> Num(30))

GRADE_SCALE ==
    << [min |-> 90, letter |-> "A"],  [min |-> 85, letter |-> "A-"],
       [min |-> 80, letter |-> "B+"], [min |-> 75, letter |-> "B"],
       [min |-> 70, letter |-> "B-"], [min |-> 65, letter |-> "C+"],
       [min |-> 60, letter |-> "C"],  [min |-> 50, letter |-> "D"],
       [min |-> 0,  letter |-> "F"] >>

\* abs(total - 100.0) > 1e-6
Tolerance == Fin(1, 1000000)

(***************************************************************************)
(* Text: the lines the model feeds to input() and the CSV fields, with     *)
(* str.strip, str.lower, float() and int() defined on them.                *)
(***************************************************************************)
EOF == "<EOF>"
NoLine == "<unset>"

Strip(s) ==
    CASE s = " " -> ""
      [] s = " Y " -> "Y"
      [] s = " Q " -> "Q"
      [] s = " q " -> "q"
      [] OTHER -> s

Lower(s) ==
    CASE s = "Y" -> "y"
      [] s = "Q" -> "q"
      [] OTHER -> s

IntText ==
    ("0" :> 0) @@ ("1" :> 1) @@ ("2" :> 2) @@ ("3" :> 3) @@ ("4" :> 4) @@
    ("30" :> 30) @@ ("60" :> 60) @@ ("70" :> 70) @@ ("80" :> 80) @@
    ("90" :> 90) @@ ("100" :> 100) @@ ("150" :> 150) @@
    ("-1" :> -1) @@ ("-5" :> -5) @@ ("-20" :> -20)

Failed == [ok |-> FALSE, v |-> NaN]

\* float(s): decimal text, and the specials "inf", "-inf", "nan"; anything
\* else (blank, other text) raises.
ParseFloat(s) ==
    CASE s \in DOMAIN IntText -> [ok |-> TRUE, v |-> Num(IntText[s])]
      [] s = "2.5" -> [ok |-> TRUE, v |-> Fin(5, 2)]
      [] s = "inf" -> [ok |-> TRUE, v |-> PInf]
      [] s = "-inf" -> [ok |-> TRUE, v |-> NInf]
      [] s = "nan" -> [ok |-> TRUE, v |-> NaN]
      [] OTHER -> Failed

\* int(s): integer text only ("2.5", "inf" raise ValueError).
ParseInt(s) ==
    IF s \in DOMAIN IntText THEN [ok |-> TRUE, v |-> IntText[s]]
    ELSE [ok |-> FALSE, v |-> 0]

(***************************************************************************)
(* Dicts are functions; iteration follows insertion order, which in this   *)
(* program is always the order of KeyOrder.                                *)
(***************************************************************************)
KeyOrder == Components \o <<"bonus">>

EmptyDict == <<>>

Keys(d) == SelectSeq(KeyOrder, LAMBDA c : c \in DOMAIN d)

Put(d, c, v) == (c :> v) @@ d

RECURSIVE SumValues(_, _)
SumValues(d, keys) ==
    IF keys = <<>> THEN Num(0)
    ELSE FAdd(SumValues(d, SubSeq(keys, 1, Len(keys) - 1)), d[keys[Len(keys)]])

(***************************************************************************)
(* Grade engine.                                                           *)
(***************************************************************************)
\* Variant: the comparison is pct > min_pct.
RECURSIVE ScanScaleStrict(_, _)
ScanScaleStrict(p, idx) ==
    IF idx > Len(GRADE_SCALE) THEN "F"
    ELSE IF FGt(p, Num(GRADE_SCALE[idx].min)) THEN GRADE_SCALE[idx].letter
    ELSE ScanScaleStrict(p, idx + 1)

RECURSIVE ScanScale(_, _)
ScanScale(p, idx) ==
    IF idx > Len(GRADE_SCALE) THEN "F"
    ELSE IF FGe(p, Num(GRADE_SCALE[idx].min)) THEN GRADE_SCALE[idx].letter
    ELSE ScanScale(p, idx + 1)

percentage_to_letter(p) == ScanScale(p, 1)

\* scores.get(comp, 0)
ScoresGet(sc, comp) == IF comp \in DOMAIN sc THEN sc[comp] ELSE Num(0)

\* Variant: the weight is used as a fraction without the division by 100.
RECURSIVE WeightedLoopNoPercent(_, _, _, _)
WeightedLoopNoPercent(sc, w, keys, total) ==
    IF keys = <<>> THEN total
    ELSE LET comp == Head(keys)
             score == ScoresGet(sc, comp)
         IN  WeightedLoopNoPercent(sc, w, Tail(keys),
                                   FAdd(total, FMul(score, w[comp])))

RECURSIVE WeightedLoop(_, _, _, _)
WeightedLoop(sc, w, keys, total) ==
    IF keys = <<>> THEN total
    ELSE LET comp == Head(keys)
             score == ScoresGet(sc, comp)
         IN  WeightedLoop(sc, w, Tail(keys),
                          FAdd(total, FMul(score, FDiv(w[comp], Num(100)))))

calculate_weighted_percentage(sc, w) == WeightedLoop(sc, w, Keys(w), Num(0))

(***************************************************************************)
(* prompt_weights, lines 103-109: the total, the tolerance test, the       *)
(* all-zero failure and the proportional rescale.                          *)
(***************************************************************************)
Total(w) == SumValues(w, Keys(w))

NeedsNormalizing(w) == FGt(FAbs(FSub(Total(w), Num(100))), Tolerance)

RaisesAllZero(w) == NeedsNormalizing(w) /\ FEq(Total(w), Num(0))

Rescale(v, total) == FMul(FDiv(v, total), Num(100))

Normalized(w) ==
    IF NeedsNormalizing(w)
    THEN [c \in DOMAIN w |-> Rescale(w[c], Total(w))]
    ELSE w

(***************************************************************************)
(* Inputs: the lines a user may type at each prompt (EOF: standard input   *)
(* is exhausted and input() raises EOFError), the CSV headers that         *)
(* csv.DictReader may present as fieldnames (NoHeader: the file is empty   *)
(* and fieldnames is None) and the fields of a data row.                   *)
(***************************************************************************)
AnsLines == {"y", " Y ", "n", "", EOF}
WeightLines == {"", "0", "inf", "-5", "abc", EOF}
CountLines ==
    {"", " ", "abc", "2.5", EOF} \cup
    {s \in DOMAIN IntText : IntText[s] <= MaxStudents}
NameLines == {"amy", "q", " Q ", EOF}
FixedNameLines == {"amy", "q", EOF}
ScoreLines == {"0", "100", "150", "-5", "nan", "abc", EOF}
CsvFields == {"80", "150", "-20", "abc"}
CsvNames == {"amy"}

Unopened == [state |-> "unopened", cols |-> <<>>]
NoHeader == [state |-> "none", cols |-> <<>>]
Header(cols) == [state |-> "list", cols |-> cols]

Headers ==
    { Header(<<"name", "assignment", "midterm", "final">>),
      Header(<<"final", "name", "bonus", "midterm", "assignment">>),
      Header(<<"name", "assignment", "midterm">>),
      Header(<<"name", "midterm">>),
      Header(<<"assignment", "midterm", "final">>),
      Header(<<"Name", "assignment", "midterm", "final">>),
      Header(<<>>),
      NoHeader }

InSeq(x, q) == \E j \in 1..Len(q) : q[j] = x

(***************************************************************************)
(* parse_csv, lines 69-72: the first required field missing from the       *)
(* header, "" when none is.                                                *)
(***************************************************************************)
RequiredFields == <<"name">> \o Components

RECURSIVE FirstMissing(_, _)
FirstMissing(required, cols) ==
    IF required = <<>> THEN ""
    ELSE IF ~InSeq(Head(required), cols) THEN Head(required)
    ELSE FirstMissing(Tail(required), cols)

\* Variant: only the first component's field is converted strictly.
RowRaisesFirstField(r) == ~ParseFloat(r[Components[1]]).ok

\* parse_csv, line 75: float(row[comp]) for comp in components, in order;
\* TRUE when some field raises.
RowRaises(r) == \E j \in 1..Len(Components) : ~ParseFloat(r[Components[j]]).ok

RowScores(r) == [c \in DOMAIN DEFAULT_WEIGHTS |-> ParseFloat(r[c]).v]

(***************************************************************************)
(* The state machine.                                                      *)
(***************************************************************************)
NoResult == [name |-> NoLine, pct |-> Num(0), letter |-> ""]

\* The locals and outputs as they are before main has run anything.
Fresh ==
    /\ mode = "weights"
    /\ ans = NoLine
    /\ rawWeights = EmptyDict
    /\ k = 1
    /\ n = NoLine
    /\ count = 0
    /\ i = 0
    /\ name = NoLine
    /\ letter = ""
    /\ out = <<>>
    /\ last = NoResult
    /\ errs = <<>>
    /\ exit_status = 0
    /\ fieldnames = Unopened
    /\ rows = 0
    /\ badrow = FALSE
    /\ asked = FALSE
    /\ entered = <<>>
    /\ reprompted = FALSE

\* args_csv: whether --csv was given.  exit_status is the process's exit
\* status once pc = "exit".
Init ==
    /\ pc = "ask_change"
    /\ args_csv \in BOOLEAN
    /\ weights = EmptyDict
    /\ scores = EmptyDict
    /\ pct = Num(0)
    /\ Fresh

\* sys.exit(1) in main, or an exception no handler catches: the
\* interpreter prints the traceback and exits with status 1.
Exit(status) ==
    /\ pc' = "exit"
    /\ exit_status' = status

\* Variant: the weight error ends the run with status 0.
WeightsFailStatus0(msg) ==
    /\ errs' = Append(errs, "Error with weights: " \o msg)
    /\ Exit(0)
    /\ UNCHANGED <<mode, asked>>

\* main, lines 182-184: any exception of prompt_weights.
WeightsFail(msg) ==
    /\ errs' = Append(errs, "Error with weights: " \o msg)
    /\ Exit(1)
    /\ UNCHANGED <<mode, asked>>

\* main, lines 186-189: prompt_weights returned.
Dispatch ==
    /\ mode' = IF args_csv THEN "csv" ELSE "interactive"
    /\ pc' = IF args_csv THEN "csv_open" ELSE "ask_count"
    /\ UNCHANGED <<errs, exit_status, asked>>

\* prompt_weights, lines 84-86.
AskChange ==
    /\ pc = "ask_change"
    /\ \E line \in AnsLines :
         IF line = EOF
         THEN /\ WeightsFail("EOF when reading a line")
              /\ UNCHANGED <<ans, weights, rawWeights>>
         ELSE /\ ans' = Lower(Strip(line))
              /\ IF ans' # "y"
                 THEN /\ weights' = DEFAULT_WEIGHTS
                      /\ rawWeights' = DEFAULT_WEIGHTS
                      /\ Dispatch
                 ELSE /\ pc' = "ask_weight"
                      /\ UNCHANGED <<weights, rawWeights, mode, errs,
                                     exit_status, asked>>
    /\ UNCHANGED <<args_csv, k, n, count, i, name, scores, pct, letter, out, last,
                   fieldnames, rows, badrow, entered, reprompted>>

\* prompt_weights, lines 91-98: the weight a line yields.
WeightOf(val, comp) ==
    IF val = "" THEN [ok |-> TRUE, v |-> DEFAULT_WEIGHTS[comp]]
    ELSE LET w == ParseFloat(val)
         IN  IF w.ok /\ FLt(w.v, Num(0)) THEN Failed ELSE w

\* prompt_weights, lines 89-109: one input() of the per-component loop and,
\* after the last component, the total, the normalization and the return.
EnterWeight ==
    /\ pc = "ask_weight"
    /\ \E line \in WeightLines :
         LET comp == Components[k]
             w == WeightOf(Strip(line), comp)
             raw == Put(rawWeights, comp, w.v)
         IN  IF line = EOF
             THEN /\ WeightsFail("EOF when reading a line")
                  /\ UNCHANGED <<weights, rawWeights, k, reprompted>>
             ELSE IF ~w.ok
             THEN /\ reprompted' = TRUE
                  /\ UNCHANGED <<pc, weights, rawWeights, k, mode, errs,
                                 exit_status, asked>>
             ELSE IF k < Len(Components)
             THEN /\ rawWeights' = raw
                  /\ weights' = raw
                  /\ k' = k + 1
                  /\ UNCHANGED <<pc, mode, errs, exit_status, asked,
                                 reprompted>>
             ELSE /\ rawWeights' = raw
                  /\ k' = 1
                  /\ UNCHANGED reprompted
                  /\ IF RaisesAllZero(raw)
                     THEN /\ weights' = raw
                          /\ WeightsFail("All weights are zero; can't normalize.")
                     ELSE /\ weights' = Normalized(raw)
                          /\ Dispatch
    /\ UNCHANGED <<args_csv, ans, n, count, i, name, scores, pct, letter, out, last,
                   fieldnames, rows, badrow, entered>>

\* An exception nothing catches (EOFError of input() in interactive_mode).
Crash ==
    /\ errs' = Append(errs, "Traceback: EOFError: EOF when reading a line")
    /\ Exit(1)

\* print(f"... {pct:.2f}% ..."): the value rounded to two decimals (ties to
\* even); inf and nan print as themselves.
Format2(x) ==
    IF x.k # "fin" THEN x
    ELSE LET t == x.n * 100
             q == t \div x.d
             r == t % x.d
             up == 2 * r > x.d \/ (2 * r = x.d /\ q % 2 = 1)
         IN  Fin(IF up THEN q + 1 ELSE q, 100)

\* lines 135-137, 158-160, 168-170: the result line of one student.
ResultLine(nm, sc, w) ==
    LET p == calculate_weighted_percentage(sc, w)
    IN  [name |-> nm, pct |-> Format2(p), letter |-> percentage_to_letter(p)]

\* Variant: the quit test is case-sensitive.
IsQuitNameCaseSensitive(nm) == nm = "q"

\* interactive_mode, line 121: name.lower() == "q".
IsQuitName(nm) == Lower(nm) = "q"

\* Variant: the counted loop runs one more round.
RangeDoneOffByOne(idx, cnt) == ~(idx <= cnt)

\* interactive_mode, line 144: range(count) is exhausted after idx rounds.
RangeDone(idx, cnt) == ~(idx < cnt)

\* interactive_mode, lines 115-144: the count prompt.
AskCount ==
    /\ pc = "ask_count"
    /\ \E line \in CountLines :
         IF line = EOF
         THEN Crash /\ UNCHANGED <<n, count, asked>>
         ELSE /\ n' = Strip(line)
              /\ IF n' = ""
                 THEN /\ pc' = "indef_name"
                      /\ asked' = TRUE
                      /\ UNCHANGED <<count, errs, exit_status>>
                 ELSE IF ~ParseInt(n').ok
                 THEN /\ errs' = Append(errs, "Invalid number, aborting.")
                      /\ Exit(0)
                      /\ UNCHANGED <<count, asked>>
                 ELSE /\ count' = ParseInt(n').v
                      /\ UNCHANGED errs
                      /\ IF RangeDone(0, count')
                         THEN Exit(0) /\ UNCHANGED asked
                         ELSE /\ pc' = "fixed_name"
                              /\ asked' = TRUE
                              /\ UNCHANGED exit_status
    /\ UNCHANGED <<args_csv, mode, ans, weights, rawWeights, k, i, name,
                   scores, pct, letter, out, last, fieldnames, rows, badrow, entered,
                   reprompted>>

\* Variant: the score is parsed but its range is not checked.
ScoreOfNoRange(s) == ParseFloat(s)

\* lines 126-131 and 149-154: the score a line yields.
ScoreOf(s) ==
    LET v == ParseFloat(s)
    IN  IF v.ok /\ ~(FLe(Num(0), v.v) /\ FLe(v.v, Num(100))) THEN Failed ELSE v

\* interactive_mode, lines 120-123: the name prompt of the indefinite loop.
IndefName ==
    /\ pc = "indef_name"
    /\ \E line \in NameLines :
         IF line = EOF
         THEN Crash /\ UNCHANGED <<name, entered, scores, k, reprompted>>
         ELSE /\ name' = Strip(line)
              /\ entered' = Append(entered, line)
              /\ IF IsQuitName(name')
                 THEN Exit(0) /\ UNCHANGED <<errs, scores, k, reprompted>>
                 ELSE /\ Len(out) < MaxStudents
                      /\ scores' = EmptyDict
                      /\ k' = 1
                      /\ reprompted' = FALSE
                      /\ pc' = "indef_score"
                      /\ UNCHANGED <<errs, exit_status>>
    /\ UNCHANGED <<args_csv, mode, ans, weights, rawWeights, n, count, i,
                   pct, letter, out, last, fieldnames, rows, badrow, asked>>

\* interactive_mode, lines 124-137: one input() of the score loop and, after
\* the last component, the result line.
IndefScore ==
    /\ pc = "indef_score"
    /\ \E line \in ScoreLines :
         LET comp == Components[k]
             v == ScoreOf(Strip(line))
             sc == Put(scores, comp, v.v)
             res == ResultLine(name, sc, weights)
         IN  IF line = EOF
             THEN Crash /\ UNCHANGED <<scores, k, pct, letter, out, last, reprompted>>
             ELSE IF ~v.ok
             THEN /\ reprompted' = TRUE
                  /\ UNCHANGED <<pc, scores, k, pct, letter, out, last, errs,
                                 exit_status>>
             ELSE /\ scores' = sc
                  /\ UNCHANGED <<errs, exit_status, reprompted>>
                  /\ IF k < Len(Components)
                     THEN /\ k' = k + 1
                          /\ UNCHANGED <<pc, pct, letter, out, last>>
                     ELSE /\ k' = 1
                          /\ pct' = calculate_weighted_percentage(sc, weights)
                          /\ letter' = res.letter
                          /\ out' = Append(out, res.name)
                          /\ last' = res
                          /\ pc' = "indef_name"
    /\ UNCHANGED <<args_csv, mode, ans, weights, rawWeights, n, count, i,
                   name, fieldnames, rows, badrow, asked, entered>>

\* interactive_mode, lines 144-146: the name prompt of the counted loop.
FixedName ==
    /\ pc = "fixed_name"
    /\ \E line \in FixedNameLines :
         IF line = EOF
         THEN Crash /\ UNCHANGED <<name, entered, scores, k, reprompted>>
         ELSE /\ name' = Strip(line)
              /\ entered' = Append(entered, line)
              /\ scores' = EmptyDict
              /\ k' = 1
              /\ reprompted' = FALSE
              /\ pc' = "fixed_score"
              /\ UNCHANGED <<errs, exit_status>>
    /\ UNCHANGED <<args_csv, mode, ans, weights, rawWeights, n, count, i,
                   pct, letter, out, last, fieldnames, rows, badrow, asked>>

\* interactive_mode, lines 147-160: one input() of the score loop and, after
\* the last component, the result line and the next iteration of range(count).
FixedScore ==
    /\ pc = "fixed_score"
    /\ \E line \in ScoreLines :
         LET comp == Components[k]
             v == ScoreOf(Strip(line))
             sc == Put(scores, comp, v.v)
             res == ResultLine(name, sc, weights)
         IN  IF line = EOF
             THEN Crash /\ UNCHANGED <<scores, k, i, pct, letter, out, last, reprompted>>
             ELSE IF ~v.ok
             THEN /\ reprompted' = TRUE
                  /\ UNCHANGED <<pc, scores, k, i, pct, letter, out, last, errs,
                                 exit_status>>
             ELSE /\ scores' = sc
                  /\ UNCHANGED <<errs, reprompted>>
                  /\ IF k < Len(Components)
                     THEN /\ k' = k + 1
                          /\ UNCHANGED <<pc, i, pct, letter, out, last, exit_status>>
                     ELSE /\ k' = 1
                          /\ pct' = calculate_weighted_percentage(sc, weights)
                          /\ letter' = res.letter
                          /\ out' = Append(out, res.name)
                          /\ last' = res
                          /\ i' = i + 1
                          /\ IF RangeDone(i', count)
                             THEN Exit(0)
                             ELSE pc' = "fixed_name" /\ UNCHANGED exit_status
    /\ UNCHANGED <<args_csv, mode, ans, weights, rawWeights, n, count,
                   name, fieldnames, rows, badrow, asked, entered>>

\* csv_mode, lines 171-172: any exception of parse_csv.
CsvFail(msg) ==
    /\ errs' = Append(errs, "Error processing CSV: " \o msg)
    /\ Exit(0)

\* parse_csv, lines 67-72: opening the file and checking the header.
CsvOpen ==
    /\ pc = "csv_open"
    /\ \/ /\ CsvFail("No such file or directory")
          /\ UNCHANGED fieldnames
       \/ \E h \in Headers :
            /\ fieldnames' = h
            /\ IF h.state = "none"
               THEN CsvFail("argument of type 'NoneType' is not iterable")
               ELSE IF FirstMissing(RequiredFields, h.cols) # ""
               THEN CsvFail("CSV is missing required column: "
                            \o FirstMissing(RequiredFields, h.cols))
               ELSE /\ pc' = "csv_row"
                    /\ UNCHANGED <<errs, exit_status>>
    /\ UNCHANGED <<args_csv, mode, ans, weights, rawWeights, k, n, count, i,
                   name, scores, pct, letter, out, last, rows, badrow, asked, entered,
                   reprompted>>

\* parse_csv, lines 73-76, and csv_mode, lines 167-170: one data row, or
\* the end of the file.
CsvRow ==
    /\ pc = "csv_row"
    /\ \/ /\ Exit(0)
          /\ UNCHANGED <<name, scores, pct, letter, out, last, errs, rows, badrow>>
       \/ /\ rows < MaxRows
          /\ \E nm \in CsvNames, r \in [DOMAIN DEFAULT_WEIGHTS -> CsvFields] :
               /\ rows' = rows + 1
               /\ badrow' = \E c \in DOMAIN r : ~ParseFloat(r[c]).ok
               /\ IF RowRaises(r)
                  THEN /\ CsvFail("could not convert field to float")
                       /\ UNCHANGED <<name, scores, pct, letter, out, last>>
                  ELSE /\ name' = nm
                       /\ scores' = RowScores(r)
                       /\ pct' = calculate_weighted_percentage(scores', weights)
                       /\ letter' = ResultLine(nm, scores', weights).letter
                       /\ out' = Append(out, nm)
                       /\ last' = ResultLine(nm, scores', weights)
                       /\ UNCHANGED <<pc, errs, exit_status>>
    /\ UNCHANGED <<args_csv, mode, ans, weights, rawWeights, k, n, count, i,
                   fieldnames, asked, entered, reprompted>>

Next ==
    \/ AskChange
    \/ EnterWeight
    \/ AskCount
    \/ IndefName
    \/ IndefScore
    \/ FixedName
    \/ FixedScore
    \/ CsvOpen
    \/ CsvRow

Spec == Init /\ [][Next]_vars

(***************************************************************************)
(* The grade engine on its own: percentage_to_letter applied to one        *)
(* percentage, calculate_weighted_percentage applied to one pair of dicts. *)
(***************************************************************************)
PctDomain ==
    {Fin(h, 2) : h \in -40..MaxHalfPct} \cup
    {Fin(89999, 1000), Fin(49999, 1000), PInf, NInf, NaN}

InitLetter ==
    /\ pc = "letter_call"
    /\ args_csv = FALSE
    /\ weights = EmptyDict
    /\ scores = EmptyDict
    /\ pct \in PctDomain
    /\ Fresh

LetterCall ==
    /\ pc = "letter_call"
    /\ letter' = percentage_to_letter(pct)
    /\ pc' = "letter_ret"
    /\ UNCHANGED <<args_csv, mode, ans, weights, rawWeights, k, n, count, i,
                   name, scores, pct, out, last, errs, exit_status,
                   fieldnames, rows, badrow, asked, entered, reprompted>>

SpecLetter == InitLetter /\ [][LetterCall]_vars

EngineKeys == {"assignment", "midterm", "bonus"}
ScoreValues == {Num(80), Num(-20), PInf}
WeightValues == {Num(0), Num(30), Num(100), PInf}

Dicts(vals) == UNION {[ks -> vals] : ks \in SUBSET EngineKeys}

InitWeighted ==
    /\ pc = "weighted_call"
    /\ args_csv = FALSE
    /\ weights \in Dicts(WeightValues)
    /\ scores \in Dicts(ScoreValues)
    /\ pct = Num(0)
    /\ Fresh

WeightedCall ==
    /\ pc = "weighted_call"
    /\ pct' = calculate_weighted_percentage(scores, weights)
    /\ pc' = "weighted_ret"
    /\ UNCHANGED <<args_csv, mode, ans, weights, rawWeights, k, n, count, i,
                   name, scores, letter, out, last, errs, exit_status,
                   fieldnames, rows, badrow, asked, entered, reprompted>>

SpecWeighted == InitWeighted /\ [][WeightedCall]_vars

(***************************************************************************)
(* Properties.                                                             *)
(***************************************************************************)
AllComponents == {Components[j] : j \in 1..Len(Components)}

Within100(w) == FLe(FAbs(FSub(Total(w), Num(100))), Tolerance)

\* prompt_weights has returned a dict to main.
WeightsReturned == mode # "weights"

\* C1: whenever prompt_weights returns normally with a positive raw sum, the
\* returned weights sum to 100 within 1e-6; they are the raw weights when
\* the raw sum is within 1e-6 of 100, and raw * 100 / raw sum otherwise.
ClaimC1 ==
    (WeightsReturned /\ FGt(Total(rawWeights), Num(0))) =>
        /\ Within100(weights)
        /\ IF Within100(rawWeights)
           THEN weights = rawWeights
           ELSE \A c \in AllComponents :
                  FEq(weights[c],
                      FDiv(FMul(rawWeights[c], Num(100)), Total(rawWeights)))

AllFinite(w) == \A c \in DOMAIN w : IsNum(w[c])

\* C1 restricted to finite weights (no "inf" entered): the same statement.
C1FiniteWeights ==
    (WeightsReturned /\ AllFinite(rawWeights)
     /\ FGt(Total(rawWeights), Num(0))) =>
        /\ Within100(weights)
        /\ IF Within100(rawWeights)
           THEN weights = rawWeights
           ELSE \A c \in AllComponents :
                  FEq(weights[c],
                      FDiv(FMul(rawWeights[c], Num(100)), Total(rawWeights)))

\* The user chose to change weights and every component has an accepted
\* weight, the total being exactly 0.
AllZeroEntered ==
    /\ ans = "y"
    /\ DOMAIN rawWeights = AllComponents
    /\ FEq(Total(rawWeights), Num(0))

\* C2: when the user changes the weights and the accepted weights sum to
\* exactly 0, main prints the weight error and exits with status 1, and
\* neither csv_mode nor interactive_mode is entered: no student prompt, no
\* CSV opened, no result line.
ThmC2 ==
    AllZeroEntered =>
        /\ pc = "exit"
        /\ exit_status = 1
        /\ errs = <<"Error with weights: All weights are zero; can't normalize.">>
        /\ mode = "weights"
        /\ ~asked
        /\ entered = <<>>
        /\ fieldnames = Unopened
        /\ rows = 0
        /\ out = <<>>

WitC2 == AllZeroEntered /\ pc = "exit" /\ reprompted

ScaleEntries == {GRADE_SCALE[j] : j \in 1..Len(GRADE_SCALE)}

\* The thresholds a percentage meets or exceeds.
Met(p) == {e \in ScaleEntries : FGe(p, Num(e.min))}

\* The letter of the highest threshold met, "F" when none is.
HighestMet(p) ==
    IF Met(p) = {} THEN "F"
    ELSE (CHOOSE e \in Met(p) : \A f \in Met(p) : f.min <= e.min).letter

\* Position of a letter on the scale: 9 for "A" down to 1 for "F".
Rank(l) ==
    LET e == CHOOSE f \in ScaleEntries : f.letter = l
    IN  CHOOSE r \in 1..Len(GRADE_SCALE) : GRADE_SCALE[Len(GRADE_SCALE) + 1 - r] = e

\* C3: percentage_to_letter returns the letter of the first (highest)
\* threshold of the descending table that pct meets or exceeds, "F" when it
\* meets none; pct >= 90 gives "A", pct < 50 gives "F", a pct on a threshold
\* gets that threshold's letter, and a higher pct never gets a lower letter.
ThmC3 ==
    pc = "letter_ret" =>
        /\ letter = HighestMet(pct)
        /\ FGe(pct, Num(90)) => letter = "A"
        /\ FLt(pct, Num(50)) => letter = "F"
        /\ \A e \in ScaleEntries : FEq(pct, Num(e.min)) => letter = e.letter
        /\ \A q \in PctDomain :
             FLe(q, pct) => Rank(percentage_to_letter(q)) <= Rank(letter)

WitC3 == pc = "letter_ret" /\ FEq(pct, Num(85)) /\ letter = "A-"

RECURSIVE SetSum(_, _, _)
SetSum(sc, w, ks) ==
    IF ks = {} THEN Num(0)
    ELSE LET c == CHOOSE x \in ks : TRUE
             score == IF c \in DOMAIN sc THEN sc[c] ELSE Num(0)
         IN  FAdd(FDiv(FMul(score, w[c]), Num(100)), SetSum(sc, w, ks \ {c}))

\* C4: calculate_weighted_percentage is the sum over exactly the components
\* of weights of score * weight / 100, a component without a score counting
\* as 0, and a score without a weight contributing nothing.
ThmC4 ==
    pc = "weighted_ret" =>
        /\ pct = SetSum(scores, weights, DOMAIN weights)
        /\ pct = SetSum([c \in DOMAIN scores \cap DOMAIN weights |-> scores[c]],
                        weights, DOMAIN weights)
        /\ (scores = EmptyDict /\ AllFinite(weights)) => pct = Num(0)

WitC4 ==
    /\ pc = "weighted_ret"
    /\ DOMAIN weights = {"assignment", "midterm"}
    /\ DOMAIN scores = {"assignment", "bonus"}
    /\ weights["assignment"] = Num(100)
    /\ weights["midterm"] = Num(30)
    /\ scores["assignment"] = Num(80)
    /\ pct = Num(80)

\* The header csv.DictReader presented lacks "name" or a component.
HeaderLacksField ==
    /\ mode = "csv"
    /\ fieldnames # Unopened
    /\ \/ fieldnames.state = "none"
       \/ \E j \in 1..Len(RequiredFields) : ~InSeq(RequiredFields[j], fieldnames.cols)

\* The first of name, assignment, midterm, final that the header lacks.
FirstLacking ==
    LET cols == fieldnames.cols
        js == {j \in 1..Len(RequiredFields) : ~InSeq(RequiredFields[j], cols)}
    IN  RequiredFields[CHOOSE j \in js : \A m \in js : j <= m]

\* C5: in CSV mode a header lacking "name" or a component (an empty or
\* absent header included) fails the run before any data row: no result
\* line, and the one error message names the first missing column.
ClaimC5 ==
    HeaderLacksField =>
        /\ pc = "exit"
        /\ rows = 0
        /\ out = <<>>
        /\ errs = <<"Error processing CSV: CSV is missing required column: "
                    \o FirstLacking>>

\* C5 for a file that has a header line (fieldnames is a list).
C5HeaderPresent == fieldnames.state = "list" => ClaimC5

\* C6: in CSV mode a data row with a component field that is no number
\* fails the run at that row: one error message, no result line for that
\* row or a later one (the result lines are those of the rows before it),
\* and processing has stopped.
ThmC6 ==
    /\ (mode = "csv" /\ badrow) =>
          /\ pc = "exit"
          /\ Len(errs) = 1
          /\ Len(out) = rows - 1
    /\ (mode = "csv" /\ ~badrow) => Len(out) = rows
    /\ mode = "csv" => Len(errs) <= 1

WitC6 == mode = "csv" /\ badrow /\ rows = 2 /\ Len(out) = 1 /\ pc = "exit"

\* C7: the process exits with non-zero status only when weight acquisition
\* failed.
ClaimC7 == (pc = "exit" /\ exit_status # 0) => mode = "weights"

\* C7 for CSV runs: no CSV error ends the run with a non-zero status.
C7CsvRuns == (pc = "exit" /\ mode = "csv") => exit_status = 0

\* interactive_mode took the counted branch (a non-blank count line) or the
\* indefinite one (a blank count line).
FixedMode == mode = "interactive" /\ n \notin {NoLine, ""}
IndefMode == mode = "interactive" /\ n = ""

\* The process ended by returning from main.
EndedNormally == pc = "exit" /\ exit_status = 0

Stripped(q) == [j \in 1..Len(q) |-> Strip(q[j])]

Max0(x) == IF x < 0 THEN 0 ELSE x

AbortedOnCount ==
    /\ pc = "exit"
    /\ exit_status = 0
    /\ errs = <<"Invalid number, aborting.">>
    /\ ~asked
    /\ entered = <<>>
    /\ out = <<>>

\* C8 as stated: a count line that is no integer aborts the run with a
\* message before any student prompt and without a result line; a count
\* line that is the integer N collects exactly N students and prints exactly
\* N result lines, in entry order, "q" being an ordinary name.
ClaimC8 ==
    FixedMode =>
        /\ ~ParseInt(n).ok => AbortedOnCount
        /\ (ParseInt(n).ok /\ EndedNormally) =>
              /\ Len(entered) = ParseInt(n).v
              /\ Len(out) = ParseInt(n).v
              /\ out = Stripped(entered)

\* C8 amended: as C8, the number of students collected and of result lines
\* printed being max(N, 0) (a negative count collects nobody); until then
\* the lines printed are those of the students entered so far, in order.
ThmC8 ==
    FixedMode =>
        /\ ~ParseInt(n).ok => AbortedOnCount
        /\ ParseInt(n).ok =>
              /\ Len(entered) <= Max0(ParseInt(n).v)
              /\ Len(out) <= Len(entered)
              /\ out = SubSeq(Stripped(entered), 1, Len(out))
        /\ (ParseInt(n).ok /\ EndedNormally) =>
              /\ Len(entered) = Max0(ParseInt(n).v)
              /\ Len(out) = Max0(ParseInt(n).v)
              /\ out = Stripped(entered)

WitC8 == FixedMode /\ n = "2" /\ EndedNormally /\ out = <<"q", "amy">>

\* The lines that are "q" case-insensitively once trimmed.
QuitLines == {"q", "Q", " q ", " Q "}

QuitEntered == entered # <<>> /\ entered[Len(entered)] \in QuitLines

\* C9: in indefinite mode the loop ends exactly when a name that is "q"
\* case-insensitively after trimming is entered: nothing is prompted or
\* printed after it, the result lines are those of the names entered before
\* it, and "q" as the first name gives no result line.
ThmC9 ==
    IndefMode =>
        /\ \A j \in 1..(Len(entered) - 1) : entered[j] \notin QuitLines
        /\ QuitEntered =>
              /\ EndedNormally
              /\ errs = <<>>
              /\ out = Stripped(SubSeq(entered, 1, Len(entered) - 1))
        /\ EndedNormally => QuitEntered
        /\ pc \in {"indef_name", "indef_score"} => ~QuitEntered

WitC9 ==
    IndefMode /\ entered = <<"amy", " Q ">> /\ out = <<"amy">> /\ EndedNormally

InRange(x) == FLe(Num(0), x) /\ FLe(x, Num(100))

\* The students whose name has been entered (the quit line is no student).
Started == Cardinality({j \in 1..Len(entered) : IndefMode => entered[j] \notin QuitLines})

\* C10: in both interactive modes every stored score is in [0,100], a
\* student's result line is printed only once every component has a score,
\* and with weights summing to 100 every percentage printed is in [0,100].
ThmC10 ==
    mode = "interactive" =>
        /\ \A c \in DOMAIN scores : InRange(scores[c])
        /\ Len(out) <= Started /\ Started <= Len(out) + 1
        /\ Len(out) < Started => DOMAIN scores # AllComponents
        /\ pc \in {"indef_score", "fixed_score"} =>
              /\ Len(out) < Started
              /\ DOMAIN scores = {Components[j] : j \in 1..(k - 1)}
        /\ (Len(out) = Started /\ out # <<>>) =>
              /\ DOMAIN scores = AllComponents
              /\ last = ResultLine(out[Len(out)], scores, weights)
        /\ (out # <<>> /\ FEq(Total(weights), Num(100))) =>
              InRange(pct) /\ InRange(last.pct)

WitC10 ==
    /\ mode = "interactive"
    /\ reprompted
    /\ out # <<>>
    /\ Len(out) = Started
    /\ FEq(Total(weights), Num(100))
    /\ FEq(last.pct, Num(100))

\* C10, CSV mode: no range check is applied, so these are not invariants; a
\* CSV row can give a percentage above 100 and one below 0.
CsvNeverAbove100 ==
    (mode = "csv" /\ out # <<>> /\ FEq(Total(weights), Num(100))) =>
        FLe(last.pct, Num(100))

CsvNeverBelow0 ==
    (mode = "csv" /\ out # <<>> /\ FEq(Total(weights), Num(100))) =>
        FLe(Num(0), last.pct)

====
